---- MODULE Spec2Model ----
(***************************************************************************)
(* Control plane of the userspace block device (ublk) binding:             *)
(*   internal/uring/ublk_control.c  the five control-command wrappers      *)
(*   test_sqe_offset.c              the submission-entry layout report     *)
(***************************************************************************)
EXTENDS Integers, Sequences, FiniteSets, TLC

(***************************************************************************)
(* C object layout: scalars, arrays, structs and unions under natural      *)
(* alignment (a scalar is aligned to its own size, an aggregate to its     *)
(* widest member, a struct is padded to a multiple of its alignment).      *)
(***************************************************************************)
Scalar(n, s) ==
  [kind |-> "scalar", name |-> n, size |-> s, count |-> 1, members |-> <<>>]

ArrayOf(n, s, c) ==
  [kind |-> "scalar", name |-> n, size |-> s, count |-> c, members |-> <<>>]

StructOf(ms) ==
  [kind |-> "struct", name |-> "", size |-> 0, count |-> 1, members |-> ms]

UnionOf(ms) ==
  [kind |-> "union", name |-> "", size |-> 0, count |-> 1, members |-> ms]

Max(a, b) == IF a >= b THEN a ELSE b

AlignUp(n, a) == ((n + a - 1) \div a) * a

RECURSIVE AlignOf(_)
RECURSIVE AlignOfAll(_, _)
RECURSIVE SizeOf(_)
RECURSIVE StructEnd(_, _, _)
RECURSIVE UnionEnd(_, _)
RECURSIVE OffsetOf(_, _)
RECURSIVE OffsetInStruct(_, _, _, _)
RECURSIVE OffsetInUnion(_, _, _)

AlignOf(t) ==
  IF t.kind = "scalar" THEN t.size ELSE AlignOfAll(t.members, 1)

AlignOfAll(ms, i) ==
  IF i > Len(ms) THEN 1 ELSE Max(AlignOf(ms[i]), AlignOfAll(ms, i + 1))

SizeOf(t) ==
  CASE t.kind = "scalar" -> t.size * t.count
    [] t.kind = "struct" -> AlignUp(StructEnd(t.members, 1, 0), AlignOf(t))
    [] t.kind = "union"  -> AlignUp(UnionEnd(t.members, 1), AlignOf(t))

\* end of the last member when the members are laid out one after another
StructEnd(ms, i, cur) ==
  IF i > Len(ms) THEN cur
  ELSE StructEnd(ms, i + 1, AlignUp(cur, AlignOf(ms[i])) + SizeOf(ms[i]))

\* end of the largest member when the members all start at 0
UnionEnd(ms, i) ==
  IF i > Len(ms) THEN 0 ELSE Max(SizeOf(ms[i]), UnionEnd(ms, i + 1))

\* offsetof(t, f); anonymous structs and unions are searched; -1: no such field
OffsetOf(t, f) ==
  CASE t.kind = "scalar" -> IF t.name = f THEN 0 ELSE -1
    [] t.kind = "struct" -> OffsetInStruct(t.members, 1, 0, f)
    [] t.kind = "union"  -> OffsetInUnion(t.members, 1, f)

OffsetInStruct(ms, i, cur, f) ==
  IF i > Len(ms) THEN -1
  ELSE LET at == AlignUp(cur, AlignOf(ms[i]))
           inner == OffsetOf(ms[i], f)
       IN IF inner >= 0 THEN at + inner
          ELSE OffsetInStruct(ms, i + 1, at + SizeOf(ms[i]), f)

OffsetInUnion(ms, i, f) ==
  IF i > Len(ms) THEN -1
  ELSE LET inner == OffsetOf(ms[i], f)
       IN IF inner >= 0 THEN inner ELSE OffsetInUnion(ms, i + 1, f)

(***************************************************************************)
(* internal/uring/ublk_control.c                                           *)
(***************************************************************************)
UBLK_CMD_ADD_DEV == 4

UBLK_CMD_SET_PARAMS == 5

UBLK_CMD_START_DEV == 6

UBLK_CMD_STOP_DEV == 16

UBLK_CMD_DEL_DEV == 2

UBLK_CMD_GET_DEV_INFO == 1

UBLK_CMD_GET_PARAMS == 9

\* 'u'
UBLK_IOC_MAGIC == 117

\* queue_id declared 32 bits wide
ublksrv_ctrl_cmd_wide_queue_id ==
  StructOf(<< Scalar("dev_id", 4),
              Scalar("queue_id", 4),
              Scalar("len", 2),
              Scalar("addr", 8),
              Scalar("data", 8),
              Scalar("dev_path_len", 2),
              Scalar("pad", 2),
              Scalar("reserved", 4) >>)

ublksrv_ctrl_cmd ==
  StructOf(<< Scalar("dev_id", 4),
              Scalar("queue_id", 2),
              Scalar("len", 2),
              Scalar("addr", 8),
              Scalar("data", 8),
              Scalar("dev_path_len", 2),
              Scalar("pad", 2),
              Scalar("reserved", 4) >>)

\* sizeof and offsetof of the control command, as the compiler lays it out
ctrl_cmd_layout ==
  [size   |-> SizeOf(ublksrv_ctrl_cmd),
   fields |-> [k \in 1 .. Len(ublksrv_ctrl_cmd.members) |->
                 [name |-> ublksrv_ctrl_cmd.members[k].name,
                  off  |-> OffsetOf(ublksrv_ctrl_cmd, ublksrv_ctrl_cmd.members[k].name),
                  size |-> ublksrv_ctrl_cmd.members[k].size]]]

\* _IOWR(type, nr, size): direction read|write, the argument's size, the
\* magic and the command number, kept as the four bit fields of the request
UBLK_IOCTL_CMD(cmd) ==
  [dir |-> 3, size |-> ctrl_cmd_layout.size, type |-> UBLK_IOC_MAGIC, nr |-> cmd]

\* the opcode the source defines for each verb
OpcodeFor(verb) ==
  CASE verb = "add"            -> UBLK_CMD_ADD_DEV
    [] verb = "set_parameters" -> UBLK_CMD_SET_PARAMS
    [] verb = "start"          -> UBLK_CMD_START_DEV
    [] verb = "stop"           -> UBLK_CMD_STOP_DEV
    [] verb = "delete"         -> UBLK_CMD_DEL_DEV
    [] verb = "get_info"       -> UBLK_CMD_GET_DEV_INFO
    [] verb = "get_parameters" -> UBLK_CMD_GET_PARAMS

RECURSIVE ByteOf(_, _)
\* byte i of the little-endian representation of v
ByteOf(v, i) == IF i = 0 THEN v % 256 ELSE ByteOf(v \div 256, i - 1)

\* the struct as the bytes the kernel primitive is handed (&cmd): every field
\* at the offset the layout gives it; -1 marks a padding byte
Image(cmd) ==
  [i \in 0 .. ctrl_cmd_layout.size - 1 |->
     LET fs == ctrl_cmd_layout.fields
         covering == {k \in DOMAIN fs : i >= fs[k].off /\ i < fs[k].off + fs[k].size}
     IN IF covering = {} THEN -1
        ELSE LET k == CHOOSE x \in covering : TRUE
             IN ByteOf(cmd[fs[k].name], i - fs[k].off)]

add_cmd(dev_id, queue_id, len, addr) ==
  [dev_id |-> dev_id, queue_id |-> queue_id, len |-> len, addr |-> addr,
   data |-> 0, dev_path_len |-> 0, pad |-> 0, reserved |-> 0]

set_params_cmd(dev_id, len, addr) ==
  [dev_id |-> dev_id, queue_id |-> 65535, len |-> len, addr |-> addr,
   data |-> 0, dev_path_len |-> 0, pad |-> 0, reserved |-> 0]

\* the servicer pid left out of the command
start_cmd_without_pid(dev_id, pid) ==
  [dev_id |-> dev_id, queue_id |-> 65535, len |-> 0, addr |-> 0,
   data |-> 0, dev_path_len |-> 0, pad |-> 0, reserved |-> 0]

start_cmd(dev_id, pid) ==
  [dev_id |-> dev_id, queue_id |-> 65535, len |-> 0, addr |-> 0,
   data |-> pid, dev_path_len |-> 0, pad |-> 0, reserved |-> 0]

stop_cmd(dev_id) ==
  [dev_id |-> dev_id, queue_id |-> 65535, len |-> 0, addr |-> 0,
   data |-> 0, dev_path_len |-> 0, pad |-> 0, reserved |-> 0]

del_cmd(dev_id) ==
  [dev_id |-> dev_id, queue_id |-> 65535, len |-> 0, addr |-> 0,
   data |-> 0, dev_path_len |-> 0, pad |-> 0, reserved |-> 0]

\* the request held back instead of submitted
ioctl_not_submitted(log, req, cmd, k) == log

\* the request submitted again after a rejection
ioctl_retried(log, req, cmd, k) ==
  IF k.ret < 0
  THEN Append(Append(log, [req |-> req, cmd |-> cmd]), [req |-> req, cmd |-> cmd])
  ELSE Append(log, [req |-> req, cmd |-> cmd])

\* ioctl(fd, req, &cmd): the kernel primitive receives the request once; k is
\* what the kernel answers
ioctl(log, req, cmd, k) ==
  Append(log, [req |-> req, cmd |-> cmd])

\* the primitive's -1 returned as it is
Return_raw(ret, e) == ret

\* a rejection swallowed into success
Return_swallowed(ret, e) == IF ret < 0 THEN 0 ELSE ret

\* errno consulted for a result of 0 too
Return_stale_errno(ret, e) == IF ret <= 0 THEN -e ELSE ret

\* if (ret < 0) return -errno; return ret;
Return(ret, e) == IF ret < 0 THEN -e ELSE ret

(***************************************************************************)
(* test_sqe_offset.c                                                       *)
(***************************************************************************)
\* sizeof(void *) is 8 (LP64); the pointer shares a union with 64-bit members
io_uring_sqe ==
  StructOf(<< Scalar("opcode", 1),
              Scalar("flags", 1),
              Scalar("ioprio", 2),
              Scalar("fd", 4),
              UnionOf(<< Scalar("off", 8),
                         Scalar("addr2", 8),
                         StructOf(<< Scalar("cmd_op", 4),
                                     Scalar("__pad1", 4) >>) >>),
              UnionOf(<< Scalar("addr", 8),
                         Scalar("splice_off_in", 8),
                         Scalar("__pad2", 8) >>),
              Scalar("len", 4),
              UnionOf(<< Scalar("uring_cmd_flags", 4),
                         Scalar("rw_flags", 4) >>),
              Scalar("user_data", 8),
              UnionOf(<< StructOf(<< UnionOf(<< Scalar("buf_index", 2),
                                                Scalar("buf_group", 2) >>),
                                     Scalar("personality", 2),
                                     UnionOf(<< Scalar("splice_fd_in", 4),
                                                Scalar("file_index", 4),
                                                Scalar("__pad3", 4),
                                                StructOf(<< Scalar("addr_len", 2),
                                                            Scalar("__pad4", 2) >>) >>) >>),
                         ArrayOf("__pad5", 8, 2) >>) >>)

RECURSIVE Digits(_)
\* printf("%zu"): the decimal digits, most significant first
Digits(n) == IF n < 10 THEN << n >> ELSE Append(Digits(n \div 10), n % 10)

Line(label, n) == [label |-> label, value |-> Digits(n)]

\* what main() prints, line by line
Report ==
  LET sqe == io_uring_sqe
  IN << Line("io_uring_sqe size", SizeOf(sqe)),
        Line("offsetof(opcode)", OffsetOf(sqe, "opcode")),
        Line("offsetof(fd)", OffsetOf(sqe, "fd")),
        Line("offsetof(off)", OffsetOf(sqe, "off")),
        Line("offsetof(addr)", OffsetOf(sqe, "addr")),
        Line("offsetof(len)", OffsetOf(sqe, "len")),
        Line("offsetof(uring_cmd_flags)", OffsetOf(sqe, "uring_cmd_flags")),
        Line("offsetof(user_data)", OffsetOf(sqe, "user_data")),
        Line("offsetof(buf_index)", OffsetOf(sqe, "buf_index")),
        Line("offsetof(splice_fd_in)", OffsetOf(sqe, "splice_fd_in")),
        [label |-> "With SQE128, addr3 would be at offset", value |-> << 4, 8 >>],
        [label |-> "C code uses &sqe->addr3 which is offset", value |-> << 4, 8 >>] >>

(***************************************************************************)
(* Inputs                                                                  *)
(***************************************************************************)
MaxDevs == 1

MaxRuns == 2

DevIds == 1 .. MaxDevs

QueueIds == {0, 65535}

Lens == {0, 64}

Addrs == {4096}

Pids == {1, 1234}

\* EPERM, EBUSY, EINVAL
Errnos == {1, 16, 22}

\* what the kernel primitive can answer: a non-negative result, or -1 with
\* errno set to the kernel's error number
KernelResults ==
  {[ret |-> r, errno |-> 0] : r \in {0, 1}}
    \cup {[ret |-> -1, errno |-> n] : n \in Errnos}

NoArgs == [queue_id |-> 0, len |-> 0, addr |-> 0, pid |-> 0]

(***************************************************************************)
(* Lifecycle of a device identifier (section 4.2 of the specification),    *)
(* followed from the outcomes the operations return.                       *)
(***************************************************************************)
Lifecycle(verb, s, del, r) ==
  IF r < 0 \/ del THEN s
  ELSE CASE verb = "add" /\ s = "Unregistered"            -> "Added"
         [] verb = "set_parameters" /\ s = "Added"        -> "ParametersSet"
         [] verb = "start" /\ s = "ParametersSet"         -> "Running"
         [] verb = "stop" /\ s = "Running"                -> "Stopped"
         [] verb = "delete" /\ s = "Stopped"              -> "Unregistered"
         [] OTHER                                         -> s

Outcome(r) ==
  IF r < 0 THEN [kind |-> "KernelRejection", errno |-> -r]
  ELSE [kind |-> "Success", errno |-> 0]

VARIABLES
  state,        \* lifecycle state of each device identifier
  deleted,      \* device identifiers whose handle a delete has released
  errno,        \* the C library's errno
  submitted,    \* requests the kernel primitive received in the latest operation
  last,         \* the latest operation: verb, arguments, kernel answer, return value
  report,       \* output of the latest run of the layout report
  prev,         \* output of the run before it
  runs          \* runs of the layout report so far

vars == << state, deleted, errno, submitted, last, report, prev, runs >>

Init ==
  /\ state = [d \in DevIds |-> "Unregistered"]
  /\ deleted = [d \in DevIds |-> FALSE]
  /\ errno = 0
  /\ submitted = << >>
  /\ last = [verb |-> "none", dev_id |-> 1, args |-> NoArgs,
             k |-> [ret |-> 0, errno |-> 0], ret |-> 0,
             outcome |-> Outcome(0),
             pre |-> "Unregistered", preDeleted |-> FALSE]
  /\ report = << >>
  /\ prev = << >>
  /\ runs = 0

\* the body the five wrappers share: build cmd, one ioctl, translate the result
Wrapper(verb, cmd, args, k) ==
  LET e == IF k.ret < 0 THEN k.errno ELSE errno
      r == Return(k.ret, e)
      d == cmd.dev_id
  IN /\ submitted' = ioctl(<< >>, UBLK_IOCTL_CMD(OpcodeFor(verb)), cmd, k)
     /\ errno' = e
     /\ last' = [verb |-> verb, dev_id |-> d, args |-> args, k |-> k, ret |-> r,
                 outcome |-> Outcome(r),
                 pre |-> state[d], preDeleted |-> deleted[d]]
     /\ state' = [state EXCEPT ![d] = Lifecycle(verb, state[d], deleted[d], r)]
     /\ deleted' = [deleted EXCEPT ![d] =
                      deleted[d] \/ (verb = "delete" /\ state[d] = "Stopped" /\ r >= 0)]
     /\ UNCHANGED << report, prev, runs >>

ublk_add_dev ==
  \E dev_id \in DevIds, queue_id \in QueueIds, len \in Lens, addr \in Addrs,
     k \in KernelResults :
    Wrapper("add", add_cmd(dev_id, queue_id, len, addr),
            [NoArgs EXCEPT !.queue_id = queue_id, !.len = len, !.addr = addr], k)

ublk_set_params ==
  \E dev_id \in DevIds, len \in Lens, addr \in Addrs, k \in KernelResults :
    Wrapper("set_parameters", set_params_cmd(dev_id, len, addr),
            [NoArgs EXCEPT !.len = len, !.addr = addr], k)

ublk_start_dev ==
  \E dev_id \in DevIds, pid \in Pids, k \in KernelResults :
    Wrapper("start", start_cmd(dev_id, pid), [NoArgs EXCEPT !.pid = pid], k)

ublk_stop_dev ==
  \E dev_id \in DevIds, k \in KernelResults :
    Wrapper("stop", stop_cmd(dev_id), NoArgs, k)

ublk_del_dev ==
  \E dev_id \in DevIds, k \in KernelResults :
    Wrapper("delete", del_cmd(dev_id), NoArgs, k)

\* one run of test_sqe_offset's main()
main ==
  /\ runs < MaxRuns
  /\ prev' = report
  /\ report' = Report
  /\ runs' = runs + 1
  /\ UNCHANGED << state, deleted, errno, submitted, last >>

Next ==
  \/ ublk_add_dev
  \/ ublk_set_params
  \/ ublk_start_dev
  \/ ublk_stop_dev
  \/ ublk_del_dev
  \/ main

Spec == Init /\ [][Next]_vars

(***************************************************************************)
(* Properties                                                              *)
(***************************************************************************)
Invoked == last.verb # "none"

\* the latest operation found its device identifier fresh: no add had succeeded on it
OnFresh == Invoked /\ last.pre = "Unregistered" /\ ~last.preDeleted

\* the outcome the kernel's answer k stands for
KernelOutcome(k) ==
  IF k.ret < 0 THEN [kind |-> "KernelRejection", errno |-> k.errno]
  ELSE [kind |-> "Success", errno |-> 0]

RECURSIVE ReadLE(_, _, _)
\* the n-byte little-endian number at offset off of the image
ReadLE(img, off, n) ==
  IF n = 0 THEN 0 ELSE img[off] + 256 * ReadLE(img, off + 1, n - 1)

RECURSIVE Number(_)
\* the number a sequence of decimal digits denotes
Number(ds) ==
  IF Len(ds) = 0 THEN 0 ELSE 10 * Number(SubSeq(ds, 1, Len(ds) - 1)) + ds[Len(ds)]

Step ==
  { << "add", "Unregistered", "Added" >>,
    << "set_parameters", "Added", "ParametersSet" >>,
    << "start", "ParametersSet", "Running" >>,
    << "stop", "Running", "Stopped" >>,
    << "delete", "Stopped", "Unregistered" >> }

\* add, set_parameters, start, stop, delete each succeed when the kernel
\* primitive returns 0, taking the device through Added, ParametersSet,
\* Running, Stopped, Unregistered
HappyPath ==
  /\ (Invoked /\ last.k.ret = 0) => (last.ret = 0 /\ last.outcome.kind = "Success")
  /\ \A st \in Step :
       (Invoked /\ ~last.preDeleted /\ last.k.ret = 0
          /\ last.verb = st[1] /\ last.pre = st[2])
         => /\ state[last.dev_id] = st[3]
            /\ deleted[last.dev_id] = (st[1] = "delete")

C3_ErrnoPropagated ==
  Invoked
    => /\ last.k.ret < 0
            => /\ last.ret = -last.k.errno
               /\ last.outcome = [kind |-> "KernelRejection", errno |-> last.k.errno]
       /\ last.k.ret >= 0
            => /\ last.ret = last.k.ret
               /\ last.outcome.kind = "Success"

C3_Witness ==
  /\ last.verb = "stop"
  /\ last.k.ret < 0
  /\ last.k.errno = 22
  /\ last.ret = -22

\* C4: a start on a device in ParametersSet that the kernel primitive rejects
\* is a kernel rejection of the start verb carrying the kernel's error number,
\* and the device stays in ParametersSet.
C4_RejectedStartKeepsParametersSet ==
  (Invoked /\ last.verb = "start" /\ last.pre = "ParametersSet" /\ last.k.ret < 0)
    => /\ last.outcome = [kind |-> "KernelRejection", errno |-> last.k.errno]
       /\ \A i \in 1 .. Len(submitted) : submitted[i].req.nr = UBLK_CMD_START_DEV
       /\ state[last.dev_id] = "ParametersSet"
       /\ ~deleted[last.dev_id]

C4_Witness ==
  /\ last.verb = "start"
  /\ last.pre = "ParametersSet"
  /\ last.k.errno = 16
  /\ last.ret = -16
  /\ state[last.dev_id] = "ParametersSet"

\* the kernel's ublksrv_ctrl_cmd: field, offset, width
KernelCtrlCmd ==
  << << "dev_id", 0, 4 >>, << "queue_id", 4, 2 >>, << "len", 6, 2 >>,
     << "addr", 8, 8 >>, << "data", 16, 8 >>, << "dev_path_len", 24, 2 >>,
     << "pad", 26, 2 >>, << "reserved", 28, 4 >> >>

\* C5: the control command is 32 bytes with dev_id@0, queue_id@4, len@6,
\* addr@8, data@16, dev_path_len@24, pad@26, reserved@28 and no padding: the
\* bytes of every submitted command, read at the kernel's offsets and widths,
\* give back the fields the operation set.
C5_CtrlCmdLayout ==
  /\ ctrl_cmd_layout.size = 32
  /\ Len(ctrl_cmd_layout.fields) = Len(KernelCtrlCmd)
  /\ \A j \in 1 .. Len(KernelCtrlCmd) :
       /\ ctrl_cmd_layout.fields[j].name = KernelCtrlCmd[j][1]
       /\ ctrl_cmd_layout.fields[j].off = KernelCtrlCmd[j][2]
       /\ ctrl_cmd_layout.fields[j].size = KernelCtrlCmd[j][3]
  /\ \A i \in 1 .. Len(submitted) :
       LET img == Image(submitted[i].cmd)
       IN /\ DOMAIN img = 0 .. 31
          /\ \A b \in DOMAIN img : img[b] # -1
          /\ \A j \in 1 .. Len(KernelCtrlCmd) :
               ReadLE(img, KernelCtrlCmd[j][2], KernelCtrlCmd[j][3])
                 = submitted[i].cmd[KernelCtrlCmd[j][1]]

C5_Witness ==
  /\ last.verb = "add"
  /\ Len(submitted) = 1
  /\ submitted[1].cmd.queue_id = 65535
  /\ submitted[1].cmd.len = 64
  /\ submitted[1].cmd.addr = 4096

\* linux/ublk_cmd.h
KernelHeaderOpcode(verb) ==
  CASE verb = "get_info"       -> 2
    [] verb = "add"            -> 4
    [] verb = "delete"         -> 5
    [] verb = "start"          -> 6
    [] verb = "stop"           -> 7
    [] verb = "set_parameters" -> 8
    [] verb = "get_parameters" -> 9

\* C6: every verb has one opcode, equal to the kernel header's constant for
\* it, and each lifecycle operation submits its command under its own verb's
\* opcode (stated for the verb of the operation just invoked).
C6_OpcodesMatchKernelHeader ==
  Invoked
    => /\ OpcodeFor(last.verb) = KernelHeaderOpcode(last.verb)
       /\ \A i \in 1 .. Len(submitted) :
            /\ submitted[i].req.nr = OpcodeFor(last.verb)
            /\ submitted[i].req.nr = KernelHeaderOpcode(last.verb)

\* C7: in every command an operation builds, queue_id is 0xFFFF unless the
\* verb is add (which carries the caller's queue_id); start, stop and delete
\* carry len = 0 and addr = 0; data is the servicer pid for start and 0 for
\* every other verb; dev_path_len, pad and reserved are 0.
C7_CommandFields ==
  \A i \in 1 .. Len(submitted) :
    LET c == submitted[i].cmd
    IN /\ c.dev_id = last.dev_id
       /\ c.queue_id = IF last.verb = "add" THEN last.args.queue_id ELSE 65535
       /\ last.verb \in {"add", "set_parameters"}
            => (c.len = last.args.len /\ c.addr = last.args.addr)
       /\ last.verb \in {"start", "stop", "delete"} => (c.len = 0 /\ c.addr = 0)
       /\ c.data = IF last.verb = "start" THEN last.args.pid ELSE 0
       /\ c.dev_path_len = 0
       /\ c.pad = 0
       /\ c.reserved = 0

C7_Witness ==
  /\ last.verb = "start"
  /\ last.args.pid = 1234
  /\ Len(submitted) = 1
  /\ submitted[1].cmd.data = 1234
  /\ submitted[1].cmd.queue_id = 65535

\* the expected table of the non-extended configuration: size, then the
\* offsets of opcode, fd, off, addr, len, uring_cmd_flags, user_data,
\* buf_index, splice_fd_in
ExpectedTable == << 64, 0, 4, 8, 16, 24, 28, 32, 40, 44 >>

\* C8: the layout report gives size 64 and offsets opcode@0, fd@4, off@8,
\* addr@16, len@24, uring_cmd_flags@28, user_data@32, buf_index@40,
\* splice_fd_in@44, and a second run prints what the first printed.
C8_ReportMatchesExpectedTable ==
  /\ runs >= 1
       => \A i \in 1 .. Len(ExpectedTable) : Number(report[i].value) = ExpectedTable[i]
  /\ runs >= 2 => prev = report

\* C9: the offset reported for the extended region (SQE128's addr3) is the
\* reported size of the base structure, beyond every reported base offset.
C9_ExtendedRegionFollowsBase ==
  runs >= 1
    => /\ Number(report[11].value) = Number(report[1].value)
       /\ Number(report[12].value) = Number(report[1].value)
       /\ \A i \in 2 .. 10 : Number(report[i].value) < Number(report[11].value)

\* C10: every invocation of add, set_parameters, start, stop or delete
\* submits exactly one command, its own, to the kernel primitive, also when
\* the kernel rejects it, whatever the error number.
C10_ExactlyOneSubmission ==
  Invoked
    => /\ Len(submitted) = 1
       /\ submitted[1].req = UBLK_IOCTL_CMD(OpcodeFor(last.verb))
       /\ submitted[1].cmd.dev_id = last.dev_id

C10_Witness ==
  /\ last.verb = "delete"
  /\ last.k.ret < 0
  /\ last.k.errno = 16
  /\ Len(submitted) = 1

====
